---- MODULE Spec2Model ----
(***************************************************************************)
(* Model of src/Backend/src/server.js: an Express gateway with one chat    *)
(* route.  A request passes the middleware chain (JSON body parser, rate   *)
(* limiter), the route handler validates the body, getChatResponse loads   *)
(* two files, assembles the composite prompt, awaits the remote completion *)
(* call and shapes its result.                                             *)
(*                                                                         *)
(* A text is a sequence of pieces, so that concatenation, join and prefix  *)
(* tests are computed: single characters where the code builds or splits   *)
(* the text, a whole literal (an engine's TypeError message, "undefined")  *)
(* where it only passes it on.  A JavaScript value is a record [t, s]: t   *)
(* is the type tag and s the text String(v) gives.                         *)
(***************************************************************************)
EXTENDS Integers, Sequences, FiniteSets, TLC

VARIABLES
    req,        \* slot -> the request being served on that connection
    hits,       \* rate limiter's MemoryStore: client key -> hits in the window
    up,         \* is the Node process still running
    express,    \* major version of the installed express (4 or 5)
    fin,        \* input of the pure function under check (function specs)
    fout        \* its output

vars == <<req, hits, up, express, fin, fout>>

\* ------------------------------------------------------------------ bounds
NSlots == 2          \* concurrent connections
RateLimitMax == 1    \* env.RATE_LIMIT_MAX of the run (default 60)
MaxEntries == 2      \* entries of data/context.json
MaxItems == 2        \* items of r.output
MaxFrags == 2        \* fragments of an item's content

Slots == 1..NSlots
Clients == {"c1", "c2"}

\* ------------------------------------------------------- JavaScript values
\* A value is [t, s]: its type and the text String(v) gives.  An array's text
\* is its elements joined with ",", so [] has the empty text.
Undef == [t |-> "undef", s |-> <<"undefined">>]
Null == [t |-> "null", s |-> <<"null">>]
Str(x) == [t |-> "str", s |-> x]
Num(ds) == [t |-> "num", s |-> ds]
Bool(b) == [t |-> "bool", s |-> IF b THEN <<"true">> ELSE <<"false">>]
Arr(text) == [t |-> "arr", s |-> text]
Obj == [t |-> "obj", s |-> <<"[object Object]">>]
\* An object or array String() cannot convert, such as JSON {"toString": 1}
\* or [{"toString": 1}]: ToPrimitive finds no callable toString and throws.
Opaque == [t |-> "opaque", s |-> <<>>]
ConvertError == <<"Cannot convert object to primitive value">>

\* Boolean(v): undefined, null, '', 0, NaN and false are falsy; every array
\* and object is truthy.
Truthy(v) ==
    CASE v.t = "str" -> v.s # <<>>
      [] v.t = "num" -> v.s \notin {<<"0">>, <<"NaN">>}
      [] v.t = "bool" -> v.s = <<"true">>
      [] v.t \in {"arr", "obj", "opaque"} -> TRUE
      [] OTHER -> FALSE

\* String(v), '' + v and join throw a TypeError on such a value.
TextThrows(v) == v.t = "opaque"

\* Array.prototype.join turns undefined and null into '', others by String().
JoinText(v) == IF v.t \in {"undef", "null"} THEN <<>> ELSE v.s

\* xs.join(sep) on an array of texts
RECURSIVE Join(_, _)
Join(xs, sep) ==
    IF xs = <<>> THEN <<>>
    ELSE IF Len(xs) = 1 THEN xs[1]
    ELSE xs[1] \o sep \o Join(Tail(xs), sep)

NL == <<"\n">>
SEP == <<"\n", "-", "-", "-", "\n">>
ErrPrefix == <<"[", "O", "p", "e", "n", "A", "I", " ", "e", "r", "r", "o", "r", ":", " ">>
ErrSuffix == <<"]">>
UnknownError == <<"U", "n", "k", "n", "o", "w", "n", " ", "e", "r", "r", "o", "r">>

\* ------------------------------------------------------------ model presets
MODEL_PRESETS ==
    [m \in {"gpt-5", "gpt-5-mini", "gpt-5-chat-latest"} |->
        CASE m = "gpt-5" ->
                [model |-> "gpt-5", temperature |-> "0.7", max_output_tokens |-> 1024]
          [] m = "gpt-5-mini" ->
                [model |-> "gpt-5-mini", temperature |-> "0.5", max_output_tokens |-> 768]
          [] OTHER ->
                [model |-> "gpt-5-chat-latest", temperature |-> "0.7",
                 max_output_tokens |-> 1024]]

\* ------------------------------------------------------- request validation
\* A request body as sent: syntax "malformed" is a body express.json()
\* rejects, "none" a request without body, "object" a JSON object with the
\* fields role, prompt and the unknown fields extras.
Body(syntax, role, prompt, extras) ==
    [syntax |-> syntax, role |-> role, prompt |-> prompt, extras |-> extras]

NoBody == Body("none", [t |-> "undef", s |-> <<"undefined">>],
               [t |-> "undef", s |-> <<"undefined">>], {})
MalformedBody == Body("malformed", [t |-> "undef", s |-> <<"undefined">>],
                      [t |-> "undef", s |-> <<"undefined">>], {})

\* Joi.string().required() on one key: the details it reports.  A detail
\* [key, problem] stands for Joi's message '"<key>" <problem>'.
FieldErrors(key, v) ==
    CASE v.t = "undef" -> <<[key |-> key, problem |-> "is required"]>>
      [] v.t = "str" /\ v.s = <<>> -> <<[key |-> key, problem |-> "is not allowed to be empty"]>>
      [] v.t = "str" -> <<>>
      [] OTHER -> <<[key |-> key, problem |-> "must be a string"]>>

\* bodySchema.validate(body, {abortEarly: false, stripUnknown: true}).error:
\* every violated constraint, in schema key order (error.message joins the
\* details' messages with ". ").
ValidationErrors(body) == FieldErrors("role", body.role) \o FieldErrors("prompt", body.prompt)

\* ... and .value: the known keys only, unknown ones stripped.
ValidatedValue(body) == [role |-> body.role.s, prompt |-> body.prompt.s, extras |-> {}]

\* ------------------------------------------------------------ static files
\* A file is missing/unreadable (readFile rejects), unparsable (JSON.parse
\* throws) or holds a JSON value.  The context value is an array of entries,
\* or something else (kind "null", "object"); an entry is an object with an
\* info field, or null.
File(state, json) == [state |-> state, json |-> json]

EmptyArray == [kind |-> "array", items |-> <<>>]
Entry(info) == [kind |-> "object", info |-> info]
NullEntry == [kind |-> "null", info |-> [t |-> "undef", s |-> <<"undefined">>]]

\* lines 75-82
LoadContext(file) == IF file.state = "json" THEN file.json ELSE EmptyArray

\* lines 85-92: the parsed prompt itself when it is truthy, '' otherwise;
\* JSON.parse(raw).prompt throws on null, inside the try
LoadGuardrail(file) ==
    IF file.state = "json" /\ file.json.kind = "object" /\ Truthy(file.json.prompt)
    THEN file.json.prompt
    ELSE Str(<<>>)

\* line 95: contextArr.map(c => c.info).join('\n') throws a TypeError, outside
\* any try, when contextArr is no array, an entry is null, or an info cannot
\* be converted to text.
ContextStringThrows(contextArr) ==
    \/ contextArr.kind # "array"
    \/ \E i \in 1..Len(contextArr.items) : contextArr.items[i].kind = "null"
    \/ \E i \in 1..Len(contextArr.items) : TextThrows(contextArr.items[i].info)

\* line 96: the filter keeps a truthy guardrailPrompt and join converts it
FullPromptThrows(guardrailPrompt) == Truthy(guardrailPrompt) /\ TextThrows(guardrailPrompt)

ContextString(contextArr) ==
    Join([i \in 1..Len(contextArr.items) |-> JoinText(contextArr.items[i].info)], NL)

\* line 96: guardrailPrompt is a value, the other two are strings; the filter
\* keeps the truthy members and join takes their text
FullPrompt(guardrailPrompt, contextString, prompt) ==
    LET members == <<guardrailPrompt, Str(contextString), Str(prompt)>>
        kept == SelectSeq(members, Truthy)
    IN Join([k \in 1..Len(kept) |-> JoinText(kept[k])], SEP)

\* lines 99-108: the argument of client.responses.create
ChosenModel(value) == "gpt-5"

CreateArgs(value, fullPrompt) ==
    LET preset == MODEL_PRESETS[ChosenModel(value)] IN
    [model |-> preset.model, temperature |-> preset.temperature,
     max_output_tokens |-> preset.max_output_tokens,
     role |-> value.role, text |-> fullPrompt]

NoArgs == [model |-> "", temperature |-> "", max_output_tokens |-> 0,
           role |-> <<>>, text |-> <<>>]

\* ------------------------------------------------------------ remote result
\* The value create() resolves with: an object (kind "object"), or undefined
\* or null.  Its output_text is a value.  Its output is absent (undefined or
\* null), an array of items, or another value ("other": an object, a number,
\* a string).  An item is an object or null; its content is absent, an array
\* of fragments, or another value; a fragment is an object with a text, or
\* null.
Frag(text) == [kind |-> "object", text |-> text]
NullFrag == [kind |-> "null", text |-> [t |-> "undef", s |-> <<"undefined">>]]
Part(kind, elems) == [kind |-> kind, elems |-> elems]
Absent == Part("absent", <<>>)
Item(content) == [kind |-> "object", content |-> content]
NullItem == [kind |-> "null", content |-> Part("absent", <<>>)]
Response(output_text, output) ==
    [kind |-> "object", output_text |-> output_text, output |-> output]
NoValue(kind) ==
    [kind |-> kind, output_text |-> [t |-> "undef", s |-> <<"undefined">>],
     output |-> Part("absent", <<>>)]

\* o.content?.map(c => c.text).join(''); an item without content maps to
\* undefined, which joins as '' one level up.
ItemText(o) ==
    IF o.content.kind = "array"
    THEN Join([j \in 1..Len(o.content.elems) |-> JoinText(o.content.elems[j].text)], <<>>)
    ELSE <<>>

\* The TypeError evaluating o.content?.map(c => c.text) raises, <<>> if none.
ItemError(o) ==
    IF o.kind = "null"
    THEN <<"Cannot read properties of null (reading 'content')">>
    ELSE IF o.content.kind = "other"
    THEN <<"o.content?.map is not a function">>
    ELSE IF o.content.kind = "array"
            /\ \E j \in 1..Len(o.content.elems) : o.content.elems[j].kind = "null"
    THEN <<"Cannot read properties of null (reading 'text')">>
    ELSE IF o.content.kind = "array"
            /\ \E j \in 1..Len(o.content.elems) : TextThrows(o.content.elems[j].text)
    THEN \* map has run over every fragment; join('') then fails
         ConvertError
    ELSE <<>>

\* The TypeError line 109 raises on r (that of the first item that raises
\* one), <<>> if it raises none.
ExtractError(r) ==
    IF r.kind # "object"
    THEN <<"Cannot read properties of ", r.kind, " (reading 'output_text')">>
    ELSE IF r.output_text.t \notin {"undef", "null"} THEN <<>>
    ELSE IF r.output.kind = "other" THEN <<"r.output?.map is not a function">>
    ELSE IF r.output.kind = "array"
            /\ \E i \in 1..Len(r.output.elems) : ItemError(r.output.elems[i]) # <<>>
    THEN LET first == CHOOSE i \in 1..Len(r.output.elems) :
                         /\ ItemError(r.output.elems[i]) # <<>>
                         /\ \A k \in 1..(i - 1) : ItemError(r.output.elems[k]) = <<>>
         IN ItemError(r.output.elems[first])
    ELSE <<>>

\* line 109, when it raises nothing
ExtractText(r) ==
    IF r.output_text.t \notin {"undef", "null"} THEN r.output_text
    ELSE IF r.output.kind = "array"
         THEN Str(Join([i \in 1..Len(r.output.elems) |-> ItemText(r.output.elems[i])], NL))
         ELSE Str(<<>>)

\* A thrown value: nullish (undefined or null), or a value with the optional
\* fields error.message and message.
Thrown(nullish, errorMessage, message) ==
    [nullish |-> nullish, errorMessage |-> errorMessage, message |-> message]

\* line 111: e.message on a nullish e throws inside the catch block
\* ... and so does the concatenation when the message chosen by || cannot be
\* converted to text
CatchThrows(e) ==
    \/ e.nullish
    \/ IF Truthy(e.errorMessage) THEN TextThrows(e.errorMessage)
       ELSE Truthy(e.message) /\ TextThrows(e.message)

ErrorText(e) ==
    LET m == IF Truthy(e.errorMessage) THEN e.errorMessage.s
             ELSE IF Truthy(e.message) THEN e.message.s
             ELSE UnknownError
    IN Str(ErrPrefix \o m \o ErrSuffix)

\* lines 109-111 for a call that resolved with r: the extracted text, or the
\* error text of the TypeError the extraction raised inside the try
Completion(r) ==
    IF ExtractError(r) # <<>>
    THEN ErrorText(Thrown(FALSE, Undef, Str(ExtractError(r))))
    ELSE ExtractText(r)

Resolve(r) == [kind |-> "resolve", r |-> r, e |-> Thrown(FALSE, Undef, Undef)]
Reject(e) == [kind |-> "reject", r |-> NoValue("undefined"), e |-> e]
NoResult == [kind |-> "none", r |-> NoValue("undefined"), e |-> Thrown(FALSE, Undef, Undef)]

\* ------------------------------------------------------------- HTTP server
NoResponse == [shape |-> "none", ok |-> FALSE, type |-> "", message |-> <<>>,
               model |-> "", output_text |-> Undef]
HealthResponse == [shape |-> "health", ok |-> TRUE, type |-> "", message |-> <<>>,
                   model |-> "", output_text |-> Undef]
\* line 135 (usage and raw are the literal null)
ChatResponse(output_text) ==
    [shape |-> "chat", ok |-> TRUE, type |-> "", message |-> <<>>,
     model |-> "gpt-5", output_text |-> output_text]
\* lines 129 and 140
ErrorResponse(type, message) ==
    [shape |-> "error", ok |-> FALSE, type |-> type, message |-> message,
     model |-> "", output_text |-> Undef]
InternalServerError == <<[key |-> "", problem |-> "Internal server error"]>>
\* express-rate-limit's default rejection: 429 with a plain text message
LimiterResponse ==
    [shape |-> "limiter", ok |-> FALSE, type |-> "",
     message |-> <<[key |-> "", problem |-> "Too many requests, please try again later."]>>,
     model |-> "", output_text |-> Undef]

\* a response without body: cors' answer to OPTIONS, the answer to HEAD
EmptyResponse == [shape |-> "empty", ok |-> FALSE, type |-> "", message |-> <<>>,
                  model |-> "", output_text |-> Undef]
\* finalhandler's answer when no route matches
NotFoundResponse ==
    [shape |-> "notFound", ok |-> FALSE, type |-> "",
     message |-> <<[key |-> "", problem |-> "Cannot GET /other"]>>,
     model |-> "", output_text |-> Undef]

Idle ==
    [pc |-> "idle", method |-> "", client |-> "", body |-> NoBody,
     value |-> [role |-> <<>>, prompt |-> <<>>, extras |-> {}],
     ctxFile |-> File("missing", EmptyArray), contextArr |-> EmptyArray,
     guardFile |-> File("missing", [kind |-> "null", prompt |-> Undef]),
     guardrailPrompt |-> Str(<<>>),
     args |-> NoArgs, calls |-> 0, result |-> NoResult,
     status |-> 0, res |-> NoResponse]

\* Variant of ParserAccepts that also fails on a request without body
ParserAcceptsObjectsOnly(body) == body.syntax = "object"

\* line 119: express.json() hands a body it cannot parse to the error chain
ParserAccepts(body) == body.syntax # "malformed"

\* Variant of LimiterRejects that lets one request too many through
LimiterRejectsLate(current) == current > RateLimitMax + 1

\* line 121: the limiter rejects once the client's hits exceed max
LimiterRejects(current) == current > RateLimitMax

\* The limiter's store counts every hit.  The limiter only compares the count
\* with max, so the model keeps min(count, max + 1).
Counted(current) == IF current > RateLimitMax + 1 THEN RateLimitMax + 1 ELSE current

\* The promise of the async route handler rejects.  What follows depends on
\* the build: Express 5 forwards the rejection to the error middleware (500);
\* Express 4 leaves it unhandled, so the response is never written, and Node
\* may terminate the process on the unhandled rejection.
RejectionOutcomes ==
    IF express = 5 THEN {"error500"} ELSE {"noResponse", "processExit"}

Rejected(r, how) ==
    IF how = "error500"
    THEN [r EXCEPT !.pc = "responded", !.status = 500,
                   !.res = ErrorResponse("ServerError", InternalServerError)]
    ELSE [r EXCEPT !.pc = "abandoned"]

\* line 117: cors(), with its defaults, ends every OPTIONS request itself
IsPreflight(method) == method = "OPTIONS /v1/chat"

\* line 123: app.get also serves HEAD
IsHealthRoute(method) == method \in {"GET /health", "HEAD /health"}

\* The middleware chain and the route handlers up to the first await.  The
\* step is taken when express.json has read the whole body: nothing before
\* that changes the state, and the limiter's count and decision follow in
\* one turn.
Receive(i, method, client, body) ==
    /\ up
    /\ req[i].pc = "idle"
    /\ LET r0 == [Idle EXCEPT !.method = method, !.client = client, !.body = body]
           current == hits[client] + 1
           errors == ValidationErrors(body)
       IN
       IF IsPreflight(method)
       THEN \* line 117: 204, before the parser and the limiter
            /\ req' = [req EXCEPT ![i] = [r0 EXCEPT !.pc = "responded", !.status = 204,
                                                  !.res = EmptyResponse]]
            /\ UNCHANGED hits
       ELSE IF ~ParserAccepts(body)
       THEN \* lines 138-141: the error middleware answers 500
            /\ req' = [req EXCEPT ![i] = [r0 EXCEPT !.pc = "responded", !.status = 500,
                          !.res = ErrorResponse("ServerError", InternalServerError)]]
            /\ UNCHANGED hits
       ELSE /\ hits' = [hits EXCEPT ![client] = Counted(current)]
            /\ req' = [req EXCEPT ![i] =
                 IF LimiterRejects(current)
                 THEN [r0 EXCEPT !.pc = "responded", !.status = 429, !.res = LimiterResponse]
                 ELSE IF IsHealthRoute(method)
                 THEN \* line 123; a HEAD request gets the headers only
                      [r0 EXCEPT !.pc = "responded", !.status = 200,
                                 !.res = IF method = "GET /health" THEN HealthResponse
                                         ELSE EmptyResponse]
                 ELSE IF method # "POST /v1/chat"
                 THEN \* no route matches
                      [r0 EXCEPT !.pc = "responded", !.status = 404, !.res = NotFoundResponse]
                 ELSE IF body.syntax = "none" /\ express = 5
                 THEN \* Express 5 leaves req.body undefined without a body: Joi
                      \* accepts undefined, and value.role at line 133 throws
                      Rejected(r0, "error500")
                 ELSE IF errors # <<>>
                 THEN \* lines 128-130 (Express 4 makes a missing body {})
                      [r0 EXCEPT !.pc = "responded", !.status = 400,
                                 !.res = ErrorResponse("BadRequest", errors)]
                 ELSE \* line 133: getChatResponse starts and awaits the first read
                      [r0 EXCEPT !.pc = "loadContext", !.value = ValidatedValue(body)]]
    /\ UNCHANGED <<up, express, fin, fout>>

\* lines 75-82: the context read settles
ContextRead(i, file) ==
    /\ up
    /\ req[i].pc = "loadContext"
    /\ req' = [req EXCEPT ![i] = [@ EXCEPT !.pc = "loadGuardrail", !.ctxFile = file,
                                           !.contextArr = LoadContext(file)]]
    /\ UNCHANGED <<hits, up, express, fin, fout>>

\* lines 85-108: the guardrail read settles, the prompt is assembled and the
\* remote call is issued
GuardrailRead(i, file) ==
    /\ up
    /\ req[i].pc = "loadGuardrail"
    /\ LET r0 == [req[i] EXCEPT !.guardFile = file, !.guardrailPrompt = LoadGuardrail(file)]
           fullPrompt == FullPrompt(r0.guardrailPrompt, ContextString(r0.contextArr),
                                    r0.value.prompt)
       IN
       IF ContextStringThrows(r0.contextArr) \/ FullPromptThrows(r0.guardrailPrompt)
       THEN \E how \in RejectionOutcomes :
               /\ req' = [req EXCEPT ![i] = Rejected(r0, how)]
               /\ up' = (how # "processExit")
       ELSE /\ req' = [req EXCEPT ![i] = [r0 EXCEPT !.pc = "invoking",
                          !.args = CreateArgs(r0.value, fullPrompt), !.calls = @ + 1]]
            /\ UNCHANGED up
    /\ UNCHANGED <<hits, express, fin, fout>>

\* lines 109-112 and 135: the remote call settles and the response is written
RemoteSettles(i, result) ==
    /\ up
    /\ req[i].pc = "invoking"
    /\ LET r0 == [req[i] EXCEPT !.result = result] IN
       IF result.kind = "reject" /\ CatchThrows(result.e)
       THEN \E how \in RejectionOutcomes :
               /\ req' = [req EXCEPT ![i] = Rejected(r0, how)]
               /\ up' = (how # "processExit")
       ELSE /\ req' = [req EXCEPT ![i] = [r0 EXCEPT !.pc = "responded", !.status = 200,
                          !.res = ChatResponse(IF result.kind = "resolve"
                                               THEN Completion(result.r)
                                               ELSE ErrorText(result.e))]]
            /\ UNCHANGED up
    /\ UNCHANGED <<hits, express, fin, fout>>

\* The connection is closed (answered, or given up by the client).
Release(i) ==
    /\ up
    /\ req[i].pc \in {"responded", "abandoned"}
    /\ req' = [req EXCEPT ![i] = Idle]
    /\ UNCHANGED <<hits, up, express, fin, fout>>

\* The limiter's window of a client elapses: its hits are forgotten.
WindowElapses(c) ==
    /\ up
    /\ hits[c] > 0
    /\ hits' = [hits EXCEPT ![c] = 0]
    /\ UNCHANGED <<req, up, express, fin, fout>>

\* ----------------------------------------------------- inputs of the server
A == <<"A">>
B == <<"B">>
G == <<"G">>
P == <<"P">>
R == <<"R">>
User == <<"u">>

Methods == {"GET /health", "POST /v1/chat", "OPTIONS /v1/chat", "HEAD /health", "GET /other"}
HealthBodies == {NoBody, MalformedBody}

\* One step of the server: connections S, clients Cl, and the inputs the
\* environment may supply (chat bodies, file states, remote results).
Serve(S, Cl, Others, ChatBodies, ContextFiles, GuardrailFiles, RemoteResults) ==
    \/ \E i \in S, c \in Cl, b \in HealthBodies : Receive(i, "GET /health", c, b)
    \/ \E i \in S, c \in Cl, b \in ChatBodies : Receive(i, "POST /v1/chat", c, b)
    \/ \E i \in S, c \in Cl, o \in Others : Receive(i, o[1], c, o[2])
    \/ \E i \in S, f \in ContextFiles : ContextRead(i, f)
    \/ \E i \in S, f \in GuardrailFiles : GuardrailRead(i, f)
    \/ \E i \in S, x \in RemoteResults : RemoteSettles(i, x)
    \/ \E i \in S : Release(i)
    \/ \E c \in Cl : WindowElapses(c)

Init ==
    /\ req = [i \in Slots |-> Idle]
    /\ hits = [c \in Clients |-> 0]
    /\ up = TRUE
    /\ express \in {4, 5}
    /\ fin = <<>>
    /\ fout = <<>>

\* The concurrent server: every connection, two clients, and few inputs: a
\* preflight, a chat request without body or valid, a context file that loads or breaks
\* line 95, a remote call that answers or breaks line 111.
Next ==
    Serve(Slots, Clients,
          { <<"OPTIONS /v1/chat", NoBody>> },
          { NoBody,
            Body("object", Str(User), Str(P), {}) },
          { File("missing", EmptyArray),
            File("json", [kind |-> "object", items |-> <<>>]) },
          { File("json", [kind |-> "object", prompt |-> Str(G)]) },
          { Resolve(Response(Str(R), Absent)),
            Reject(Thrown(TRUE, Undef, Undef)) })

Spec == Init /\ [][Next]_vars

\* Two connections of one client, with a wider choice of inputs.
ChatSlots == {1, 2}

ChatBodies ==
    { MalformedBody, NoBody,
      Body("object", Undef, Undef, {}),
      Body("object", Str(User), Undef, {}),
      Body("object", Str(User), Str(<<>>), {}),
      Body("object", Num(<<"5">>), Str(P), {}),
      Body("object", Str(User), Str(P), {}),
      Body("object", Str(User), Str(P), {"model"}),
      Body("object", Str(User), Str(P), {"temperature", "max_output_tokens"}) }

ContextFiles ==
    { File("missing", EmptyArray),
      File("unparsable", EmptyArray),
      File("json", [kind |-> "array", items |-> <<Entry(Str(A)), Entry(Str(B))>>]),
      File("json", [kind |-> "object", items |-> <<>>]),
      File("json", [kind |-> "array", items |-> <<NullEntry>>]) }

GuardrailFiles ==
    { File("missing", [kind |-> "null", prompt |-> Undef]),
      File("json", [kind |-> "null", prompt |-> Undef]),
      File("json", [kind |-> "object", prompt |-> Str(G)]),
      File("json", [kind |-> "object", prompt |-> Arr(<<>>)]),
      File("json", [kind |-> "object", prompt |-> Opaque]) }

RemoteResults ==
    { Resolve(Response(Str(R), Absent)),
      Resolve(Response(Undef, Part("array",
                 <<Item(Part("array", <<Frag(Str(A)), Frag(Str(B))>>)), Item(Absent)>>))),
      Resolve(Response(Num(<<"5">>), Absent)),
      Resolve(Response(Undef, Part("array", <<NullItem>>))),
      Resolve(NoValue("undefined")),
      Reject(Thrown(FALSE, Undef, Str(<<"m">>))),
      Reject(Thrown(FALSE, Str(<<"e">>), Str(<<"m">>))),
      Reject(Thrown(FALSE, Undef, Arr(<<>>))),
      Reject(Thrown(FALSE, Undef, Num(<<"NaN">>))),
      Reject(Thrown(FALSE, Undef, Opaque)),
      Reject(Thrown(TRUE, Undef, Undef)) }

OtherRequests ==
    { <<"OPTIONS /v1/chat", NoBody>>, <<"OPTIONS /v1/chat", MalformedBody>>,
      <<"HEAD /health", NoBody>>, <<"GET /other", NoBody>> }

NextChat ==
    Serve(ChatSlots, {"c1"}, OtherRequests, ChatBodies, ContextFiles, GuardrailFiles,
          RemoteResults)

SpecChat == Init /\ [][NextChat]_vars

\* ------------------------------------------- the prompt assembler by itself
\* Lines 75-96 as a function of the two files and the caller's prompt.
Infos == {Undef, Str(<<>>), Str(A), Str(B), Opaque}
Entries == {Entry(v) : v \in Infos} \cup {NullEntry}

RECURSIVE SeqsUpTo(_, _)
SeqsUpTo(S, n) ==
    IF n = 0 THEN {<<>>}
    ELSE LET shorter == SeqsUpTo(S, n - 1) IN
         shorter \cup {Append(q, x) : q \in {y \in shorter : Len(y) = n - 1}, x \in S}

\* every state of data/context.json with at most n entries
AllContextFiles(n) ==
    {File("missing", EmptyArray), File("unparsable", EmptyArray),
     File("json", [kind |-> "null", items |-> <<>>]),
     File("json", [kind |-> "object", items |-> <<>>])}
    \cup {File("json", [kind |-> "array", items |-> q]) : q \in SeqsUpTo(Entries, n)}

AllGuardrailFiles ==
    {File("missing", [kind |-> "null", prompt |-> Undef]),
     File("unparsable", [kind |-> "null", prompt |-> Undef]),
     File("json", [kind |-> "null", prompt |-> Undef])}
    \cup {File("json", [kind |-> "object", prompt |-> v]) :
             v \in {Undef, Null, Str(<<>>), Str(G), Num(<<"0">>), Num(<<"5">>),
                    Bool(FALSE), Bool(TRUE), Arr(<<>>), Arr(<<"1">>), Obj, Opaque}}

Prompts == {P, <<"P", "\n", "Q">>}

InitAssemble ==
    /\ req = [i \in Slots |-> Idle]
    /\ hits = [c \in Clients |-> 0]
    /\ up = TRUE
    /\ express = 5
    /\ fin \in [ctxFile : AllContextFiles(MaxEntries), guardFile : AllGuardrailFiles, prompt : Prompts]
    /\ fout = [done |-> FALSE, threw |-> FALSE, text |-> <<>>]

Assemble ==
    /\ ~fout.done
    /\ LET contextArr == LoadContext(fin.ctxFile)
           guardrailPrompt == LoadGuardrail(fin.guardFile)
       IN
       fout' = IF ContextStringThrows(contextArr) \/ FullPromptThrows(guardrailPrompt)
               THEN [done |-> TRUE, threw |-> TRUE, text |-> <<>>]
               ELSE [done |-> TRUE, threw |-> FALSE,
                     text |-> FullPrompt(guardrailPrompt, ContextString(contextArr),
                                         fin.prompt)]
    /\ UNCHANGED <<req, hits, up, express, fin>>

SpecAssemble == InitAssemble /\ [][Assemble]_vars

\* ---------------------------------------------- the text extractor by itself
\* Lines 109-111 as a function of the value the call resolved with.
Frags == {Frag(Str(A)), Frag(Str(B)), NullFrag}
OutputTexts == {Null, Str(<<>>), Str(R), Num(<<"5">>), Opaque}

\* every value with at most n items of at most m fragments: without
\* output_text, every output; with one, and with fragments whose text is no
\* string, a few
Responses(n, m) ==
    LET contents == {Absent, Part("other", <<>>)}
                       \cup {Part("array", q) : q \in SeqsUpTo(Frags, m)}
        items == {NullItem} \cup {Item(c) : c \in contents}
        outputs == {Absent, Part("other", <<>>)}
                      \cup {Part("array", q) : q \in SeqsUpTo(items, n)}
        one == Part("array", <<Item(Part("array", <<Frag(Str(A))>>))>>)
    IN {Response(Undef, o) : o \in outputs}
       \cup {Response(t, o) : t \in OutputTexts,
                               o \in {Absent, one, Part("array", <<NullItem>>)}}
       \cup {Response(Undef, Part("array", <<Item(Part("array", <<Frag(v), Frag(Str(A))>>))>>)) :
                v \in {Undef, Null, Num(<<"5">>), Arr(<<>>), Opaque}}
       \cup {Response(Undef, Part("array",
                 <<Item(Part("array", <<Frag(Opaque), NullFrag>>))>>))}
       \cup {NoValue("undefined"), NoValue("null")}

InitExtract ==
    /\ req = [i \in Slots |-> Idle]
    /\ hits = [c \in Clients |-> 0]
    /\ up = TRUE
    /\ express = 5
    /\ fin \in Responses(MaxItems, MaxFrags)
    /\ fout = [done |-> FALSE, value |-> Undef]

Extract ==
    /\ ~fout.done
    /\ fout' = [done |-> TRUE, value |-> Completion(fin)]
    /\ UNCHANGED <<req, hits, up, express, fin>>

SpecExtract == InitExtract /\ [][Extract]_vars

\* ================================================================== claims
\* Vocabulary of the claims, stated on the request as sent and the response
\* as received.
IsNonEmptyString(v) == v.t = "str" /\ v.s # <<>>
IsPrefix(p, x) == Len(p) <= Len(x) /\ SubSeq(x, 1, Len(p)) = p
IsSuffix(p, x) == Len(p) <= Len(x) /\ SubSeq(x, Len(x) - Len(p) + 1, Len(x)) = p
BodyValid(b) == b.syntax = "object" /\ IsNonEmptyString(b.role) /\ IsNonEmptyString(b.prompt)
IsChat(r) == r.pc # "idle" /\ r.method = "POST /v1/chat"
IsHealth(r) == r.pc # "idle" /\ r.method = "GET /health"
Finished(r) == r.pc \in {"responded", "abandoned"}
Answered(r) == r.pc = "responded"
\* a valid chat request that the limiter let through to the route handler
Handled(r) == IsChat(r) /\ BodyValid(r.body) /\ r.status # 429
\* the step in which connection i receives a request
Arrives(i) == req[i].pc = "idle" /\ req'[i].pc # "idle"

\* C1: every validated POST /v1/chat request, whatever the files hold and the
\* remote call returns or throws, is answered 200 with ok: true and a string
\* output_text.
C1_AlwaysOkString ==
    \A i \in ChatSlots :
        (Handled(req[i]) /\ Finished(req[i])) =>
            /\ Answered(req[i])
            /\ req[i].status = 200
            /\ req[i].res.ok
            /\ req[i].res.output_text.t = "str"

\* C2 (expected value, computed by cases rather than by filter and join): the
\* directive is the text of the guardrail prompt that was loaded
Directive(file) == LoadGuardrail(file).s

InfoText(e) == IF e.info.t \notin {"undef", "null"} THEN e.info.s ELSE <<>>

RECURSIVE Block(_)
Block(items) ==
    IF Len(items) = 0 THEN <<>>
    ELSE IF Len(items) = 1 THEN InfoText(items[1])
    ELSE Block(SubSeq(items, 1, Len(items) - 1)) \o NL \o InfoText(items[Len(items)])

ContextBlock(file) == IF file.state = "json" THEN Block(file.json.items) ELSE <<>>

Composite(g, c, p) ==
    CASE g = <<>> /\ c = <<>> -> p
      [] g = <<>> /\ c # <<>> -> c \o SEP \o p
      [] g # <<>> /\ c = <<>> -> g \o SEP \o p
      [] OTHER -> g \o SEP \o c \o SEP \o p

ExampleInput ==
    [ctxFile |-> File("json", [kind |-> "array", items |-> <<Entry(Str(A)), Entry(Str(B))>>]),
     guardFile |-> File("json", [kind |-> "object", prompt |-> Str(G)]),
     prompt |-> P]

ExampleComposite ==
    <<"G", "\n", "-", "-", "-", "\n", "A", "\n", "B", "\n", "-", "-", "-", "\n", "P">>

\* C2: the composite input handed to the completion call is the non-empty
\* members of (guardrail directive, context block, prompt), in that order,
\* joined with "\n---\n", the context block being the entries' info fields in
\* file order joined with "\n"; empty members contribute nothing, and the
\* example of the specification gives "G\n---\nA\nB\n---\nP".
C2_CompositeInput ==
    (fout.done /\ ~fout.threw) =>
        /\ fout.text = Composite(Directive(fin.guardFile), ContextBlock(fin.ctxFile),
                                 fin.prompt)
        /\ fin = ExampleInput => fout.text = ExampleComposite

\* The part of C2 that holds: whenever the prompt of the guardrail file is a
\* string (or the file holds none), the composite input is as C2 says.
CompositeOfStrings ==
    (fout.done /\ ~fout.threw
        /\ ((fin.guardFile.state = "json" /\ fin.guardFile.json.kind = "object")
               => fin.guardFile.json.prompt.t \in {"undef", "null", "str"})) =>
        /\ fout.text = Composite(Directive(fin.guardFile), ContextBlock(fin.ctxFile),
                                 fin.prompt)
        /\ fin = ExampleInput => fout.text = ExampleComposite

\* C3: the prompt assembler never raises: whatever the state of the two files,
\* the request reaches the completion call, a failed context load counts as
\* the empty sequence and a failed guardrail load as the empty string, and
\* with both empty the composite input is the caller's prompt.
C3_AssemblerNeverRaises ==
    \A i \in ChatSlots :
        (Handled(req[i]) /\ req[i].pc \in {"invoking", "responded", "abandoned"}) =>
            /\ req[i].calls = 1
            /\ req[i].ctxFile.state # "json" => req[i].contextArr = EmptyArray
            /\ req[i].guardFile.state # "json" => req[i].guardrailPrompt = Str(<<>>)
            /\ (req[i].ctxFile.state # "json" /\ req[i].guardFile.state # "json")
                  => req[i].args.text = req[i].body.prompt.s

\* C4: when the remote call fails with any thrown value, the request is still
\* answered 200 with ok: true and an output_text "[OpenAI error: ...]".
C4_RemoteFailureIsPlaceholder ==
    \A i \in ChatSlots :
        (Handled(req[i]) /\ Finished(req[i]) /\ req[i].result.kind = "reject") =>
            /\ Answered(req[i])
            /\ req[i].status = 200
            /\ req[i].res.ok
            /\ req[i].res.output_text.t = "str"
            /\ IsPrefix(ErrPrefix, req[i].res.output_text.s)
            /\ IsSuffix(ErrSuffix, req[i].res.output_text.s)

\* C5: a POST /v1/chat request with a malformed body, or without a non-empty
\* string role or prompt, is answered 400 BadRequest with a message naming
\* every violated constraint, and neither file is read nor the remote called.
C5_BadRequest ==
    \A i \in ChatSlots :
        (IsChat(req[i]) /\ ~BodyValid(req[i].body) /\ req[i].status # 429) =>
            /\ Answered(req[i])
            /\ req[i].status = 400
            /\ req[i].res.shape = "error" /\ ~req[i].res.ok
            /\ req[i].res.type = "BadRequest"
            /\ \A k \in {"role", "prompt"} :
                  ~IsNonEmptyString(req[i].body[k]) =>
                      \E n \in 1..Len(req[i].res.message) : req[i].res.message[n].key = k
            /\ req[i].calls = 0
            /\ req[i].pc \notin {"loadContext", "loadGuardrail", "invoking"}

\* C6 as stated: every GET /health request is answered 200 {ok: true}.
C6_HealthAlways200 ==
    \A i \in Slots :
        IsHealth(req[i]) => (req[i].status = 200 /\ req[i].res = HealthResponse)

\* C6 as amended: a GET /health request whose body the JSON parser accepts is
\* answered 200 {ok: true} when the limiter admits it (its client has fewer
\* than max hits in the window), whatever the other connections and their
\* remote calls are doing, and with the limiter's 429 otherwise.
C6_HealthWhenAdmitted ==
    [][\A i \in Slots :
          (Arrives(i) /\ req'[i].method = "GET /health"
                      /\ req'[i].body.syntax # "malformed") =>
              IF hits[req'[i].client] < RateLimitMax
              THEN req'[i].status = 200 /\ req'[i].res = HealthResponse
              ELSE req'[i].status = 429 /\ req'[i].res = LimiterResponse]_vars

\* A health request answered 200 while another client is over its quota and
\* a remote call of another connection is pending.
C6_Witness ==
    \E i \in Slots, j \in Slots, c \in Clients :
        /\ IsHealth(req[i]) /\ req[i].status = 200 /\ req[i].res = HealthResponse
        /\ c # req[i].client /\ hits[c] > RateLimitMax
        /\ req[j].pc = "invoking"

\* C7 as stated: once a client is over its quota, every further request of
\* the window gets the limiter's rejection and no remote call.
C7_EveryFurtherRejected ==
    [][\A i \in Slots :
          (Arrives(i) /\ hits[req'[i].client] > RateLimitMax) =>
              /\ req'[i].status = 429 /\ req'[i].res = LimiterResponse
              /\ req'[i].pc = "responded" /\ req'[i].calls = 0]_vars

\* C7 as amended: a request other than OPTIONS that arrives when its client
\* has used up its quota gets no remote call, and gets the limiter's rejection
\* if the JSON parser accepts its body (a body the parser rejects is answered
\* 500 before the limiter runs, and is not counted); an OPTIONS request is
\* answered 204 by the CORS middleware, whatever the quota, and is not
\* counted; when the window elapses the client's count restarts at zero, and
\* a request of a client below its quota is not rejected by the limiter.
C7_RejectedUntilWindowElapses ==
    [][/\ \A i \in Slots :
             Arrives(i) =>
                 LET c == req'[i].client
                     preflight == req'[i].method = "OPTIONS /v1/chat"
                     parsed == req'[i].body.syntax # "malformed"
                 IN /\ (hits[c] >= RateLimitMax) =>
                          /\ req'[i].pc = "responded" /\ req'[i].calls = 0
                          /\ (~preflight /\ parsed) =>
                                (req'[i].status = 429 /\ req'[i].res = LimiterResponse)
                          /\ (~preflight /\ ~parsed) => req'[i].status = 500
                    /\ preflight => req'[i].status = 204
                    /\ (hits[c] < RateLimitMax) => req'[i].status # 429
                    /\ hits'[c] = IF ~preflight /\ parsed THEN Counted(hits[c] + 1)
                                  ELSE hits[c]
       /\ \A c \in Clients : hits'[c] < hits[c] => hits'[c] = 0]_vars

\* A client was rejected, its window elapsed, and its next chat request is
\* being served.
C7_Witness ==
    \E i \in Slots, j \in Slots :
        /\ req[i].status = 429
        /\ req[j].client = req[i].client
        /\ req[j].pc = "invoking"
        /\ hits[req[i].client] <= RateLimitMax

\* C8: two chat requests that agree on role and prompt and differ only in
\* unknown fields (read the same files, get the same remote result) both pass
\* validation, submit the same composite input with model gpt-5, temperature
\* 0.7 and max_output_tokens 1024, and get the same response
\* {ok: true, model: "gpt-5", output_text, usage: null, raw: null}.
C8_UnknownFieldsIgnored ==
    \A i \in ChatSlots, j \in ChatSlots :
        ( /\ i # j
          /\ Handled(req[i]) /\ Handled(req[j])
          /\ req[i].body.role = req[j].body.role
          /\ req[i].body.prompt = req[j].body.prompt
          /\ req[i].body.extras # req[j].body.extras
          /\ Finished(req[i]) /\ Finished(req[j])
          /\ req[i].ctxFile = req[j].ctxFile
          /\ req[i].guardFile = req[j].guardFile
          /\ req[i].result = req[j].result ) =>
            /\ req[i].value = req[j].value
            /\ req[i].args = req[j].args
            /\ req[i].args.model = "gpt-5"
            /\ req[i].args.temperature = "0.7"
            /\ req[i].args.max_output_tokens = 1024
            /\ req[i].status = 200 /\ req[j].status = 200
            /\ req[i].res = req[j].res
            /\ req[i].res.shape = "chat" /\ req[i].res.ok /\ req[i].res.model = "gpt-5"

\* C9 (expected value, computed from the left)
RECURSIVE Concat(_)
Concat(frags) ==
    IF Len(frags) = 0 THEN <<>>
    ELSE Concat(SubSeq(frags, 1, Len(frags) - 1))
            \o (IF frags[Len(frags)].text.t \notin {"undef", "null"}
                THEN frags[Len(frags)].text.s ELSE <<>>)

TextOfItem(o) == IF o.content.kind = "array" THEN Concat(o.content.elems) ELSE <<>>

RECURSIVE Lines(_)
Lines(items) ==
    IF Len(items) = 0 THEN <<>>
    ELSE IF Len(items) = 1 THEN TextOfItem(items[1])
    ELSE Lines(SubSeq(items, 1, Len(items) - 1)) \o NL \o TextOfItem(items[Len(items)])

Expected(r) ==
    IF r.output_text.t \notin {"undef", "null"} THEN r.output_text
    ELSE IF r.output.kind = "array" THEN Str(Lines(r.output.elems))
    ELSE Str(<<>>)

\* C9: for every response object of a successful call the extracted text is
\* output_text when that field is present; otherwise the output items' texts
\* (each item's fragments concatenated) joined with newlines; and the empty
\* string when neither yields any text.
C9_ExtractedText ==
    (fout.done /\ fin.kind = "object") => fout.value = Expected(fin)

\* The part of C9 that holds: it is so whenever the output, if any, is an
\* array of objects whose content, if any, is an array of objects; on any
\* other value the result is the error text of the TypeError.
ExtractedWhenWellFormed ==
    fout.done =>
        IF ExtractError(fin) = <<>>
        THEN fout.value = Expected(fin)
        ELSE /\ fout.value.t = "str"
             /\ IsPrefix(ErrPrefix, fout.value.s)
             /\ IsSuffix(ErrSuffix, fout.value.s)

\* C10: a validated request loads the context, loads the guardrail, invokes
\* the remote service exactly once and only then is answered, exactly once.
C10_OneCallThenOneResponse ==
    \A i \in Slots :
        Handled(req[i]) =>
            /\ req[i].calls <= 1
            /\ req[i].pc \in {"loadContext", "loadGuardrail"} =>
                  (req[i].calls = 0 /\ req[i].status = 0)
            /\ req[i].pc = "invoking" =>
                  (req[i].calls = 1 /\ req[i].result.kind = "none" /\ req[i].status = 0)
            /\ Finished(req[i]) =>
                  (req[i].calls = 1 /\ req[i].result.kind # "none" /\ Answered(req[i]))

\* ------------------------------------------------------- what does hold
\* The parts of C8 and C10 that do not depend on the handler completing;
\* they hold under SpecChat and Spec respectively.  (CompositeOfStrings holds
\* under SpecAssemble, ExtractedWhenWellFormed under SpecExtract.)

\* Unknown body fields never change the validated value, the create
\* arguments or the response.
UnknownFieldsDoNotInterfere ==
    \A i \in ChatSlots, j \in ChatSlots :
        ( /\ i # j
          /\ Handled(req[i]) /\ Handled(req[j])
          /\ req[i].body.role = req[j].body.role
          /\ req[i].body.prompt = req[j].body.prompt
          /\ Finished(req[i]) /\ Finished(req[j])
          /\ req[i].ctxFile = req[j].ctxFile
          /\ req[i].guardFile = req[j].guardFile
          /\ req[i].result = req[j].result ) =>
            /\ req[i].value = req[j].value
            /\ req[i].args = req[j].args
            /\ req[i].calls = 1 => req[i].args.model = "gpt-5"
            /\ (Answered(req[i]) /\ Answered(req[j])) => req[i].res = req[j].res

\* At most one remote call, issued after both loads; a 200 only after it settled.
StepsInOrder ==
    \A i \in Slots :
        Handled(req[i]) =>
            /\ req[i].calls <= 1
            /\ req[i].pc \in {"loadContext", "loadGuardrail"} =>
                  (req[i].calls = 0 /\ req[i].status = 0)
            /\ req[i].pc = "invoking" =>
                  (req[i].calls = 1 /\ req[i].result.kind = "none" /\ req[i].status = 0)
            /\ req[i].status = 200 => (req[i].calls = 1 /\ req[i].result.kind # "none")

====
